---- MODULE Spec2Model ----
(***************************************************************************)
(* Model of the qvikchat chat-endpoint request pipeline                    *)
(* (defineChatEndpoint in src/src/core/core.ts) over its three stores:     *)
(* the API key store, the cache store and the chat history store.          *)
(*                                                                         *)
(* A request is a process that runs the handler segment by segment: each   *)
(* action is the code executed between two suspension points (await) of    *)
(* the handler, which JavaScript runs to completion without interleaving.  *)
(* The in-memory stores complete their work synchronously inside the call, *)
(* so their effect belongs to the segment that issues the call; the        *)
(* Firestore chat history store completes its writes in a later segment.   *)
(***************************************************************************)
EXTENDS Integers, Sequences, FiniteSets, Bags, TLC

(***************************************************************************)
(* Bounds of the model.                                                    *)
(***************************************************************************)
MaxRequests == 4
MaxTime == 2
RequestsLimit == 2
MaxFirestoreRequests == 3
MaxChats == 2
MaxMessages == 4

(***************************************************************************)
(* Values.                                                                 *)
(***************************************************************************)
Slots == {1, 2}
Thresholds == {1, 2, 3}
Queries == {"", "q"}
NoChatId == 0
UnknownChatId == MaxRequests + 1
NoTime == 0 - 1
Endpoint == "chat"

\* A response value as the caller or the cache sees it: shape is the
\* JavaScript shape (string, parsed object, {contentType,url} or undefined).
Val(shape, v, ct) == [shape |-> shape, v |-> v, ct |-> ct]
NoResponse == Val("undefined", "", "")

\* outputSchema: format plus, for media, the expected content type.
OutputSchema(format, ct) == [format |-> format, contentType |-> ct]
OutputSchemas ==
  {OutputSchema("text", ""), OutputSchema("json", ""), OutputSchema("media", "png")}

\* JSON.stringify / JSON.parse on the objects the generator can produce.
JSONstringify(o) ==
  CASE o = "o1" -> "{o1}"
    [] o = "o2" -> "{o2}"
    [] OTHER -> "null"

JSONparses(s) == s \in {"{o1}", "{o2}"}

JSONparse(s) ==
  CASE s = "{o1}" -> "o1"
    [] s = "{o2}" -> "o2"
    [] OTHER -> "SyntaxError"

\* What the generator can return for a request of the given format:
\* text() for text, output() for json, media() for media.
GenResults(format) ==
  CASE format = "text" -> {Val("string", "a", ""), Val("string", "b", "")}
    [] format = "json" -> {Val("object", "o1", "")}
    [] OTHER -> {Val("media", "u", "png")}

\* A chat message: role and first content part (text, data or media).
Msg(role, type, body) == [role |-> role, type |-> type, body |-> body]

UserMsg(query) == Msg("user", "text", query)

\* The system prompt text depends on the agent variant only.
SystemMsg(agentType) == Msg("system", "text", agentType)

\* The model message of a generated response, as res.toHistory() holds it:
\* the model answers json as text, media as a media part.
GeneratedModelMsg(g) ==
  CASE g.shape = "string" -> Msg("model", "text", g.v)
    [] g.shape = "object" -> Msg("model", "text", JSONstringify(g.v))
    [] OTHER -> Msg("model", "media", g.v)

(***************************************************************************)
(* Pure helpers of the pipeline.                                           *)
(***************************************************************************)
RECURSIVE HistoryItems(_)
HistoryItems(messages) ==
  IF messages = << >> THEN << >>
  ELSE LET m == Head(messages)
           rest == HistoryItems(Tail(messages))
       IN IF m.type = "text" /\ m.body # ""
          THEN <<"<chat_history_item>", m.role, m.body>> \o rest
          ELSE rest

\* A rendering that leaves the history out of the fingerprint material.
WithoutChatHistory(messages) == << >>

\* getChatHistoryAsString: the tagged items of the messages that carry text.
getChatHistoryAsString(messages) ==
  <<"<chat_history>">> \o HistoryItems(messages) \o <<"</chat_history>">>

\* SHA-256 is modelled as an injective tagging of its input.
generateHash(data) == <<"sha256">> \o data

(***************************************************************************)
(* Endpoint configurations.                                                *)
(***************************************************************************)
Config(n, cache, history, auth, rag) ==
  [cacheQueryAfterThreshold |-> n, recordExpiryDuration |-> 1,
   enableCache |-> cache, history |-> history,
   enableAuth |-> auth, enableRAG |-> rag, agentType |-> "open-ended",
   retriever |-> "instance"]

(***************************************************************************)
(* State.                                                                  *)
(***************************************************************************)
VARIABLES
  cfg,      \* endpoint configuration (fixed after construction)
  now,      \* wall clock
  keys,     \* API key store: key -> record
  cache,    \* cache store: query hash -> record
  chats,    \* chat history store: chat id -> messages
  req,      \* per slot: the request being handled and its local variables
  last,     \* the response returned last
  returned, \* number of responses returned so far
  sight,    \* per query hash: lookups since the record was (re)registered or reset
  pending   \* store operations issued without await and not yet completed

vars == <<cfg, now, keys, cache, chats, req, last, returned, sight, pending>>

Idle ==
  [pc |-> "idle", query |-> "", chatId |-> NoChatId, outputSchema |-> OutputSchema("text", ""),
   chatIdIn |-> NoChatId, queryHash |-> << >>, cacheThresholdReached |-> FALSE,
   res |-> NoResponse, messages |-> << >>, gen |-> FALSE, retr |-> FALSE, nth |-> 0,
   found |-> "none", key |-> "", uid |-> "", history |-> << >>]

Started == returned + Cardinality({r \in Slots : req[r].pc # "idle"})

AllIdle == \A r \in Slots : req[r].pc = "idle"

NoLast ==
  [out |-> "none", response |-> NoResponse, chatId |-> NoChatId, gen |-> FALSE,
   key |-> "", uid |-> ""]

InitStores ==
  /\ now = 0
  /\ keys = << >>
  /\ cache = << >>
  /\ chats = << >>
  /\ req = [r \in Slots |-> Idle]
  /\ last = NoLast
  /\ returned = 0
  /\ sight = << >>
  /\ pending = EmptyBag


(***************************************************************************)
(* API key store (in-memory) and the authorization policy.                 *)
(***************************************************************************)
\* addKey: status defaults to "disabled", endpoints to []; the record stores
\* neither requestsLimit nor anything else of the new-record argument.
\* An addKey that stores the status exactly as given, without a default.
addKeyAsGiven(k, key, status, endpoints, uid, requestsLimit) ==
  (key :> [requests |-> 0, status |-> status,
           endpoints |-> IF endpoints = "default" THEN "none" ELSE endpoints,
           uid |-> uid, requestsLimit |-> 0]) @@ k

addKey(k, key, status, endpoints, uid, requestsLimit) ==
  (key :> [requests |-> 0, status |-> IF status = "default" THEN "disabled" ELSE status,
           endpoints |-> IF endpoints = "default" THEN "none" ELSE endpoints,
           uid |-> uid, requestsLimit |-> 0]) @@ k

\* An incrementRequests that leaves the counter alone.
incrementRequestsSkipped(k, key) == k

\* incrementRequests -> updateKey({key, requests: requests + 1})
incrementRequests(k, key) ==
  [k EXCEPT ![key].requests = IF @ + 1 # 0 THEN @ + 1 ELSE @]

\* An authorization step that only tests that the key is known.
KnownKeyOnly(key, uid) ==
  IF cfg.enableAuth /\ key \notin DOMAIN keys THEN "Error: Invalid API key" ELSE ""

\* The error the authorization step ends with, "" when the request passes.
\* authPolicy of the endpoint first, then apiKeyAuthPolicy.
AuthError(key, uid) ==
  IF ~cfg.enableAuth THEN ""
  ELSE IF key = "" THEN "Error: Invalid API key"
  ELSE IF uid = "" THEN "Error: User ID not provided"
  ELSE IF key \notin DOMAIN keys THEN "Authorization failed. API key not found."
  ELSE LET apiKey == keys[key] IN
    IF apiKey.status = "disabled" THEN "Authorization failed. API key is disabled."
    ELSE IF apiKey.uid # uid THEN "Authorization failed. Invalid user ID."
    ELSE IF apiKey.requestsLimit # 0 /\ apiKey.requests >= apiKey.requestsLimit
      THEN "Authorization failed. Requests limit exceeded for the provided API key."
    ELSE IF apiKey.endpoints # "all" /\ apiKey.endpoints # Endpoint
      THEN "Authorization failed. Endpoint not allowed for the provided API key."
    ELSE ""

\* An error message: its text, followed by what is interpolated into it.
Message(text) == <<text>>

\* An authorization step that reports every failure with one message.
apiKeyAuthPolicyTerse(key, uid, endpoint, apiKeyStore) ==
  IF /\ key # "" /\ apiKeyStore.initialized /\ key \in DOMAIN apiKeyStore.keys
     /\ apiKeyStore.keys[key].status # "disabled"
     /\ apiKeyStore.keys[key].uid = uid
     /\ ~(apiKeyStore.keys[key].requestsLimit # 0
           /\ apiKeyStore.keys[key].requests >= apiKeyStore.keys[key].requestsLimit)
     /\ apiKeyStore.keys[key].endpoints \in {"all", endpoint}
  THEN << >>
  ELSE Message("Authorization failed.")

\* apiKeyAuthPolicy({key, uid, endpoint, apiKeyStore}): the message of the
\* error it throws, << >> when it returns.
apiKeyAuthPolicy(key, uid, endpoint, apiKeyStore) ==
  IF key = "" THEN Message("Authorization required. Missing API key.")
  ELSE IF ~apiKeyStore.initialized
    THEN Message("Authorization failed. API key store not initialized.")
  ELSE IF key \notin DOMAIN apiKeyStore.keys
    THEN Message("Authorization failed. API key not found") \o <<key>>
  ELSE LET apiKey == apiKeyStore.keys[key] IN
    IF apiKey.status = "disabled" THEN Message("Authorization failed. API key is disabled.")
    ELSE IF apiKey.uid # uid THEN Message("Authorization failed. Invalid user ID.")
    ELSE IF apiKey.requestsLimit # 0 /\ apiKey.requests >= apiKey.requestsLimit
      THEN Message("Authorization failed. Requests limit exceeded for the provided API key.")
    ELSE IF apiKey.endpoints # "all" /\ apiKey.endpoints # endpoint
      THEN Message("Authorization failed. Endpoint not allowed for the provided API key.")
    ELSE << >>

(***************************************************************************)
(* Cache store (in-memory).                                                *)
(***************************************************************************)
HasResponse(record) == record.response # NoResponse

\* addQuery: (re)registers the hash with a fresh record, no response.
addQuery(c, query, responseType, hash) ==
  (hash :> [query |-> query, responseType |-> responseType,
            cacheThreshold |-> cfg.cacheQueryAfterThreshold, cacheHits |-> 0,
            response |-> NoResponse, expiry |-> NoTime,
            lastUsed |-> NoTime, lastAccessed |-> NoTime]) @@ c

\* cacheResponse throws on an empty hash, a falsy response or a missing record.
cacheResponseThrows(c, hash, response) ==
  \/ hash = << >>
  \/ response = NoResponse
  \/ (response.shape = "string" /\ response.v = "")
  \/ hash \notin DOMAIN c

cacheResponse(c, hash, responseType, response) ==
  [c EXCEPT ![hash].responseType = responseType,
            ![hash].response = response,
            ![hash].expiry = now + cfg.recordExpiryDuration]

\* addRecord: stores a record that carries the response from the start, with
\* threshold 0, under the hash of the query; nothing for an empty query or a
\* falsy response.
addRecord(c, query, responseType, response) ==
  IF query = "" \/ response = NoResponse \/ (response.shape = "string" /\ response.v = "")
  THEN c
  ELSE (generateHash(<<query>>) :>
          [query |-> <<query>>, responseType |-> responseType,
           cacheThreshold |-> 0, cacheHits |-> 0,
           response |-> response, expiry |-> now + cfg.recordExpiryDuration,
           lastUsed |-> NoTime, lastAccessed |-> NoTime]) @@ c

\* decrementCacheThreshold: one less unless already 0.
decrementCacheThreshold(c, hash) ==
  IF hash \in DOMAIN c
  THEN [c EXCEPT ![hash].cacheThreshold = IF @ # 0 THEN @ - 1 ELSE 0]
  ELSE c

\* A hit counter that also takes one off the countdown.
incrementCacheHitsLowersThreshold(c, hash) ==
  [c EXCEPT ![hash].cacheHits = @ + 1, ![hash].cacheThreshold = @ - 1]

incrementCacheHits(c, hash) == [c EXCEPT ![hash].cacheHits = @ + 1]

isExpired(record) == record.expiry # NoTime /\ now > record.expiry

\* A reset that clears the response but leaves the countdown where it was.
resetCacheKeepsThreshold(c, hash) ==
  [incrementCacheHits(c, hash) EXCEPT
     ![hash].response = NoResponse,
     ![hash].expiry = NoTime,
     ![hash].lastAccessed = now]

\* updateLastUsed(hash, incrementCacheHits = true): declared by the CacheStore
\* interface; stamps lastUsed and counts the hit.
updateLastUsed(c, hash) ==
  [incrementCacheHits(c, hash) EXCEPT ![hash].lastUsed = now]

\* updateLastAccessed(hash): declared by the CacheStore interface; stamps
\* lastAccessed.
updateLastAccessed(c, hash) == [c EXCEPT ![hash].lastAccessed = now]

\* resetCache(hash): declared by the CacheStore interface; clears the response,
\* resets the threshold, counts the hit and stamps lastAccessed.
resetCache(c, hash) ==
  [incrementCacheHits(c, hash) EXCEPT
     ![hash].response = NoResponse,
     ![hash].expiry = NoTime,
     ![hash].cacheThreshold = cfg.cacheQueryAfterThreshold,
     ![hash].lastAccessed = now]

(***************************************************************************)
(* Chat history stores.                                                    *)
(***************************************************************************)
NewChatId == Cardinality(DOMAIN chats) + 1

\* A creation that hands out an id and stores nothing under it.
addChatHistoryDropped(h, messages) == h

\* addChatHistory: a new conversation under a fresh id.
addChatHistory(h, messages) == (NewChatId :> messages) @@ h

\* InMemoryChatHistoryStore.addMessages: push, or nothing when the id is unknown.
addMessagesInMemory(h, chatId, messages) ==
  IF chatId \in DOMAIN h THEN [h EXCEPT ![chatId] = @ \o messages] ELSE h

\* FieldValue.arrayUnion: appends, in order, the elements not already present.
RECURSIVE arrayUnion(_, _)
arrayUnion(stored, messages) ==
  IF messages = << >> THEN stored
  ELSE LET m == Head(messages) IN
    arrayUnion(IF \E i \in 1..Len(stored) : stored[i] = m THEN stored ELSE Append(stored, m),
               Tail(messages))

\* FirestoreChatHistoryStore.addMessages: update() of an existing document.
addMessagesFirestore(h, chatId, messages) ==
  IF chatId \in DOMAIN h THEN [h EXCEPT ![chatId] = arrayUnion(@, messages)] ELSE h

addMessagesThrows(h, chatId) == cfg.history = "firestore" /\ chatId \notin DOMAIN h

(***************************************************************************)
(* The request pipeline.                                                   *)
(***************************************************************************)
\* The response returned to the caller; gen records whether the generator
\* was invoked for it.
Response(r, out, response, chatId) ==
  [out |-> out, response |-> response, chatId |-> chatId, gen |-> req[r].gen,
   key |-> req[r].key, uid |-> req[r].uid]

\* The handler returns (or throws): the slot is free again.
Return(r, out, response, chatId) ==
  /\ last' = Response(r, out, response, chatId)
  /\ returned' = returned + 1
  /\ req' = [req EXCEPT ![r] = Idle]

\* The stage after the cache block: retrieval when RAG is enabled, else generation.
AfterCache == IF cfg.enableRAG THEN "retrieve" ELSE "generate"

\* The stage after the history block: cache lookup when the cache is enabled.
AfterHistory == IF cfg.enableCache THEN "lookup" ELSE AfterCache

\* Middleware, authPolicy and the head of the handler up to its first await.
Start(r, query, chatId, outputSchema, key, uid) ==
  /\ req[r].pc = "idle"
  /\ Started < MaxRequests
  /\ LET new == [Idle EXCEPT !.query = query, !.chatIdIn = chatId, !.chatId = chatId,
                             !.outputSchema = outputSchema,
                             !.queryHash = generateHash(<<query>>),
                             !.key = key, !.uid = uid]
         Immediate(out, response) ==
           [Response(r, out, response, NoChatId) EXCEPT !.key = key, !.uid = uid]
     IN
     IF AuthError(key, uid) # ""
     THEN /\ last' = Immediate("throw", NoResponse)
          /\ returned' = returned + 1
          /\ UNCHANGED <<keys, req>>
     ELSE /\ keys' = IF cfg.enableAuth THEN incrementRequests(keys, key) ELSE keys
          /\ IF query = ""
             THEN /\ last' = Immediate("greet", Val("string", "How can I help you today?", ""))
                  /\ returned' = returned + 1
                  /\ UNCHANGED req
             ELSE /\ req' = [req EXCEPT ![r] =
                               [new EXCEPT !.pc = IF cfg.history # "off" /\ chatId # NoChatId
                                                  THEN "load" ELSE AfterHistory]]
                  /\ UNCHANGED <<last, returned>>
  /\ UNCHANGED <<pending, cfg, now, cache, chats, sight>>

\* A history load that falls back to a new conversation when the id is unknown.
LoadOrStartFresh(r) ==
  /\ req[r].pc = "load"
  /\ req' = [req EXCEPT
               ![r].chatId = IF @ \in DOMAIN chats THEN @ ELSE NoChatId,
               ![r].queryHash =
                  IF req[r].chatId \in DOMAIN chats
                  THEN generateHash(<<req[r].query>> \o getChatHistoryAsString(chats[req[r].chatId]))
                  ELSE @,
               ![r].history = IF req[r].chatId \in DOMAIN chats
                              THEN chats[req[r].chatId] ELSE @,
               ![r].pc = AfterHistory]
  /\ UNCHANGED <<pending, cfg, now, keys, cache, chats, sight, last, returned>>

\* getChatHistory(chatId) and the fingerprint material built from it.
Load(r) ==
  /\ req[r].pc = "load"
  /\ IF req[r].chatId \notin DOMAIN chats
     THEN Return(r, "error", NoResponse, NoChatId)
     ELSE /\ req' = [req EXCEPT
                      ![r].queryHash =
                         generateHash(<<req[r].query>> \o getChatHistoryAsString(chats[req[r].chatId])),
                      ![r].history = chats[req[r].chatId],
                      ![r].pc = AfterHistory]
          /\ UNCHANGED <<last, returned>>
  /\ UNCHANGED <<pending, cfg, now, keys, cache, chats, sight>>

\* A comparison that takes every pair of kinds for equal.
AnyKind(responseType, format) == TRUE

\* The comparison (===) of a record's kind with a kind.
SameKind(responseType, format) == responseType = format

\* A record that never counts as expired.
NeverExpired(cachedQuery) == FALSE

\* The handler's expiry test: an expiry is set and lies before the current time.
Expired(cachedQuery) == cachedQuery.expiry # NoTime /\ cachedQuery.expiry < now

\* Reconstruction of the model message from a cached response; the branch
\* that throws "Error parsing cached data" is ~CachedParses.
CachedParses(record, outputSchema) ==
  \/ outputSchema.format = "text" /\ SameKind(record.responseType, "text")
  \/ outputSchema.format = "json" /\ SameKind(record.responseType, "json")
       /\ JSONparses(record.response.v)
  \/ outputSchema.format = "media" /\ SameKind(record.responseType, "media")
       /\ record.response.ct = outputSchema.contentType

CachedModelMsg(record) ==
  CASE record.responseType = "text" -> Msg("model", "text", record.response.v)
    [] record.responseType = "json" -> Msg("model", "data", JSONparse(record.response.v))
    [] OTHER -> Msg("model", "media", record.response.v)

\* The variant of the chat agent the handler constructs: 'rag' when RAG is
\* enabled, else close-ended or open-ended as configured.
ChatAgentType ==
  IF cfg.enableRAG THEN "rag"
  ELSE IF cfg.agentType = "close-ended" THEN "close-ended" ELSE "open-ended"

\* The variant whose system prompt text the cache-hit branch stores.
HitAgentType ==
  IF cfg.agentType = "close-ended"
  THEN IF cfg.enableRAG THEN "rag" ELSE "close-ended"
  ELSE "open-ended"

\* The messages a cache hit stores: the turn, preceded by the system prompt
\* when the conversation is new.
HitMessages(r, record) ==
  IF req[r].chatId # NoChatId
  THEN <<UserMsg(req[r].query), CachedModelMsg(record)>>
  ELSE <<SystemMsg(HitAgentType), UserMsg(req[r].query), CachedModelMsg(record)>>

\* getRecord(queryHash) and the whole cache block that follows it.
Lookup(r) ==
  /\ req[r].pc = "lookup"
  /\ LET hash == req[r].queryHash
         material == Tail(hash)
         format == req[r].outputSchema.format
         register(found) ==
           /\ cache' = addQuery(cache, material, format, hash)
           /\ sight' = (hash :> 1) @@ sight
           /\ req' = [req EXCEPT ![r].pc = AfterCache, ![r].nth = 1, ![r].found = found]
           /\ UNCHANGED <<last, returned, chats>>
     IN
     IF hash \notin DOMAIN cache
     THEN register("absent")
     ELSE LET cachedQuery == cache[hash] IN
       IF HasResponse(cachedQuery) /\ SameKind(cachedQuery.responseType, format)
       THEN IF Expired(cachedQuery)
            THEN /\ cache' = resetCache(cache, hash)
                 /\ sight' = [sight EXCEPT ![hash] = 1]
                 /\ req' = [req EXCEPT ![r].pc = AfterCache, ![r].nth = 1,
                                       ![r].found = "expired"]
                 /\ UNCHANGED <<last, returned, chats>>
            ELSE IF ~CachedParses(cachedQuery, req[r].outputSchema)
            THEN register("unparsable")
            ELSE /\ cache' = updateLastUsed(cache, hash)
                 /\ sight' = [sight EXCEPT ![hash] = @ + 1]
                 /\ IF cfg.history = "off"
                    THEN /\ last' = Response(r, "hit", cachedQuery.response, NoChatId)
                         /\ returned' = returned + 1
                         /\ req' = [req EXCEPT ![r] = Idle]
                         /\ UNCHANGED chats
                    ELSE IF cfg.history = "memory"
                    THEN /\ chats' = IF req[r].chatId # NoChatId
                                     THEN addMessagesInMemory(chats, req[r].chatId, HitMessages(r, cachedQuery))
                                     ELSE addChatHistory(chats, HitMessages(r, cachedQuery))
                         /\ last' = Response(r, "hit", cachedQuery.response,
                                        IF req[r].chatId # NoChatId THEN req[r].chatId ELSE NewChatId)
                         /\ returned' = returned + 1
                         /\ req' = [req EXCEPT ![r] = Idle]
                    ELSE /\ req' = [req EXCEPT ![r].pc = "hitHistory", ![r].nth = sight[hash] + 1,
                                               ![r].found = "hit",
                                               ![r].res = cachedQuery.response,
                                               ![r].messages = HitMessages(r, cachedQuery)]
                         /\ UNCHANGED <<last, returned, chats>>
       ELSE \* decrementCacheThreshold runs before the check reads the record
            /\ cache' = decrementCacheThreshold(cache, hash)
            /\ sight' = [sight EXCEPT ![hash] = @ + 1]
            /\ req' = [req EXCEPT ![r].pc = AfterCache, ![r].nth = sight[hash] + 1,
                                  ![r].found = IF HasResponse(cachedQuery)
                                               THEN "otherKind" ELSE "pending",
                                  ![r].cacheThresholdReached = (cache'[hash].cacheThreshold - 1 = 0)]
            /\ UNCHANGED <<last, returned, chats>>
  /\ UNCHANGED <<pending, cfg, now, keys>>

\* Completion of the history write a cache hit issued on the Firestore store.
HitHistory(r) ==
  /\ req[r].pc = "hitHistory"
  /\ IF req[r].chatId # NoChatId
     THEN IF addMessagesThrows(chats, req[r].chatId)
          THEN \* rethrown as "Could not parse cached response", caught by the
               \* cache block, which registers the query again
               /\ cache' = addQuery(cache, Tail(req[r].queryHash), req[r].outputSchema.format, req[r].queryHash)
               /\ sight' = (req[r].queryHash :> 1) @@ sight
               /\ req' = [req EXCEPT ![r].pc = AfterCache, ![r].nth = 1, ![r].res = NoResponse,
                                     ![r].messages = << >>, ![r].found = "unparsable"]
               /\ UNCHANGED <<last, returned, chats>>
          ELSE /\ chats' = addMessagesFirestore(chats, req[r].chatId, req[r].messages)
               /\ Return(r, "hit", req[r].res, req[r].chatId)
               /\ UNCHANGED <<cache, sight>>
     ELSE /\ chats' = addChatHistory(chats, req[r].messages)
          /\ Return(r, "hit", req[r].res, NewChatId)
          /\ UNCHANGED <<cache, sight>>
  /\ UNCHANGED <<pending, cfg, now, keys>>

\* The error returned when RAG is enabled without retriever and retrieverConfig.
RetrieverConfigError ==
  Val("string", "Error: To enable RAG you must provide either retriever or retriever config.", "")

\* A retrieval stage that goes on to generation without testing the configuration.
RetrieveUnchecked(r, ok) ==
  /\ req[r].pc = "retrieve"
  /\ IF ok
     THEN /\ req' = [req EXCEPT ![r].pc = "generate", ![r].retr = TRUE]
          /\ UNCHANGED <<last, returned>>
     ELSE /\ last' = Response(r, "error", NoResponse, NoChatId)
          /\ returned' = returned + 1
          /\ req' = [req EXCEPT ![r] = Idle]
  /\ UNCHANGED <<pending, cfg, now, keys, cache, chats, sight>>

\* The RAG block: the configuration test, then retriever.invoke(query).
\* cfg.retriever is "instance" or "config" for a configured retriever, "none"
\* when the configuration has neither key, and "undefined" when it has the
\* key retriever without a value (invoke then throws a TypeError).
Retrieve(r, ok) ==
  /\ req[r].pc = "retrieve"
  /\ IF cfg.retriever = "none"
     THEN /\ last' = Response(r, "error", RetrieverConfigError, NoChatId)
          /\ returned' = returned + 1
          /\ req' = [req EXCEPT ![r] = Idle]
     ELSE IF ok /\ cfg.retriever # "undefined"
     THEN /\ req' = [req EXCEPT ![r].pc = "generate", ![r].retr = TRUE]
          /\ UNCHANGED <<last, returned>>
     ELSE /\ last' = Response(r, "error", NoResponse, NoChatId)
          /\ returned' = returned + 1
          /\ req' = [req EXCEPT ![r] = Idle]
  /\ UNCHANGED <<pending, cfg, now, keys, cache, chats, sight>>

\* The messages generateResponse stores: res.toHistory() for a new
\* conversation, its last two messages for an existing one.
GeneratedMessages(r, g) ==
  IF req[r].chatId # NoChatId
  THEN <<UserMsg(req[r].query), GeneratedModelMsg(g)>>
  ELSE <<SystemMsg(ChatAgentType), UserMsg(req[r].query), GeneratedModelMsg(g)>>

\* chatAgent.generateResponse: the generator call returns g or fails; the
\* in-memory history store is written in the same segment.
Generate(r, ok, g) ==
  /\ req[r].pc = "generate"
  /\ IF ~ok
     THEN /\ last' = [Response(r, "error", NoResponse, NoChatId) EXCEPT !.gen = TRUE]
          /\ returned' = returned + 1
          /\ req' = [req EXCEPT ![r] = Idle]
          /\ UNCHANGED chats
     ELSE /\ UNCHANGED <<last, returned>>
          /\ IF cfg.history = "off"
             THEN /\ req' = [req EXCEPT ![r].pc = "finish", ![r].gen = TRUE, ![r].res = g]
                  /\ UNCHANGED chats
             ELSE IF cfg.history = "memory"
             THEN /\ chats' = IF req[r].chatId # NoChatId
                              THEN addMessagesInMemory(chats, req[r].chatId, GeneratedMessages(r, g))
                              ELSE addChatHistory(chats, GeneratedMessages(r, g))
                  /\ req' = [req EXCEPT ![r].pc = "finish", ![r].gen = TRUE, ![r].res = g,
                                        ![r].chatId = IF @ # NoChatId THEN @ ELSE NewChatId]
             ELSE /\ req' = [req EXCEPT ![r].pc = "historyWrite", ![r].gen = TRUE, ![r].res = g,
                                        ![r].messages = GeneratedMessages(r, g)]
                  /\ UNCHANGED chats
  /\ UNCHANGED <<pending, cfg, now, keys, cache, sight>>

\* Completion of the history write generateResponse issued on the Firestore store.
HistoryWrite(r) ==
  /\ req[r].pc = "historyWrite"
  /\ IF req[r].chatId # NoChatId
     THEN IF addMessagesThrows(chats, req[r].chatId)
          THEN /\ Return(r, "error", NoResponse, NoChatId)
               /\ UNCHANGED chats
          ELSE /\ chats' = addMessagesFirestore(chats, req[r].chatId, req[r].messages)
               /\ req' = [req EXCEPT ![r].pc = "finish", ![r].messages = << >>]
               /\ UNCHANGED <<last, returned>>
     ELSE /\ chats' = addChatHistory(chats, req[r].messages)
          /\ req' = [req EXCEPT ![r].pc = "finish", ![r].messages = << >>, ![r].chatId = NewChatId]
          /\ UNCHANGED <<last, returned>>
  /\ UNCHANGED <<pending, cfg, now, keys, cache, sight>>

\* What cacheResponse is given for a generated response g: the stringified
\* output for json, the media object for media, the text for text.
CachedForm(g) ==
  IF g.shape = "object" THEN Val("string", JSONstringify(g.v), "") ELSE g

\* What the handler returns for a generated response g.
ReturnedForm(g) == g

\* The tail of the handler: cache write when the threshold was reached, then
\* the response.
Finish(r) ==
  /\ req[r].pc = "finish"
  /\ LET g == req[r].res
         hash == req[r].queryHash
         caches == cfg.enableCache /\ req[r].cacheThresholdReached
     IN
     IF caches /\ cacheResponseThrows(cache, hash, CachedForm(g))
     THEN /\ Return(r, "error", NoResponse, NoChatId)
          /\ UNCHANGED cache
     ELSE /\ cache' = IF caches
                      THEN cacheResponse(cache, hash, req[r].outputSchema.format, CachedForm(g))
                      ELSE cache
          /\ Return(r, "fresh", ReturnedForm(g), req[r].chatId)
  /\ UNCHANGED <<pending, cfg, now, keys, chats, sight>>

(***************************************************************************)
(* The cache block over the Firestore cache store.  Its methods are async  *)
(* and the handler does not await them: a call only issues the operation,  *)
(* which completes in a later segment, and getRecord returns a snapshot.   *)
(* Modelled for endpoints without chat history.                            *)
(***************************************************************************)
Op(op, by, hash, arg) == [op |-> op, by |-> by, hash |-> hash, arg |-> arg]

Issued(o) == pending (+) SetToBag({o})

Completed(o) == pending (-) SetToBag({o})

\* An update() that writes the response and leaves kind and expiry as they were.
updateResponseOnly(c, hash, written) ==
  IF hash \in DOMAIN c THEN [c EXCEPT ![hash].response = written.response] ELSE c

\* FirestoreCacheStore.cacheResponse: one update() of responseType, response
\* and expiry; it fails on a missing document.
updateResponse(c, hash, written) ==
  IF hash \in DOMAIN c
  THEN [c EXCEPT ![hash].responseType = written.responseType,
                 ![hash].response = written.response,
                 ![hash].expiry = written.expiry]
  ELSE c

\* FirestoreCacheStore.decrementCacheThreshold, second half: update() with
\* the value computed from its own read.
updateCacheThreshold(c, hash, value) ==
  IF hash \in DOMAIN c THEN [c EXCEPT ![hash].cacheThreshold = value] ELSE c

\* getRecord(queryHash) returning a snapshot, and the cache block after it.
LookupFirestore(r) ==
  /\ req[r].pc = "lookup"
  /\ cfg.history = "off"
  /\ LET hash == req[r].queryHash
         format == req[r].outputSchema.format
         register(found) ==
           /\ pending' = Issued(Op("addQuery", r, hash, format))
           /\ sight' = (hash :> 1) @@ sight
           /\ req' = [req EXCEPT ![r].pc = AfterCache, ![r].nth = 1, ![r].found = found]
           /\ UNCHANGED <<last, returned>>
     IN
     IF hash \notin DOMAIN cache
     THEN register("absent")
     ELSE LET cachedQuery == cache[hash] IN
       IF HasResponse(cachedQuery) /\ SameKind(cachedQuery.responseType, format)
       THEN IF Expired(cachedQuery)
            THEN /\ pending' = Issued(Op("resetCache", r, hash, ""))
                 /\ sight' = [sight EXCEPT ![hash] = 1]
                 /\ req' = [req EXCEPT ![r].pc = AfterCache, ![r].nth = 1,
                                       ![r].found = "expired"]
                 /\ UNCHANGED <<last, returned>>
            ELSE IF ~CachedParses(cachedQuery, req[r].outputSchema)
            THEN register("unparsable")
            ELSE /\ pending' = Issued(Op("updateLastUsed", r, hash, ""))
                 /\ sight' = [sight EXCEPT ![hash] = @ + 1]
                 /\ Return(r, "hit", cachedQuery.response, NoChatId)
       ELSE /\ pending' = Issued(Op("decrementRead", r, hash, ""))
            /\ sight' = [sight EXCEPT ![hash] = @ + 1]
            /\ req' = [req EXCEPT ![r].pc = AfterCache, ![r].nth = sight[hash] + 1,
                                  ![r].found = IF HasResponse(cachedQuery)
                                               THEN "otherKind" ELSE "pending",
                                  ![r].cacheThresholdReached =
                                     (cachedQuery.cacheThreshold - 1 = 0)]
            /\ UNCHANGED <<last, returned>>
  /\ UNCHANGED <<cfg, now, keys, cache, chats>>

\* The tail of the handler: cacheResponse is issued when the threshold was
\* reached (its rejection on a falsy response goes unobserved), then the
\* response is returned.
FinishFirestore(r) ==
  /\ req[r].pc = "finish"
  /\ LET g == req[r].res
         hash == req[r].queryHash
         written == [responseType |-> req[r].outputSchema.format,
                     response |-> CachedForm(g),
                     expiry |-> now + cfg.recordExpiryDuration]
         issues == /\ cfg.enableCache /\ req[r].cacheThresholdReached
                   /\ hash # << >>
                   /\ ~(CachedForm(g).shape = "string" /\ CachedForm(g).v = "")
     IN
     /\ pending' = IF issues THEN Issued(Op("cacheResponse", r, hash, written))
                   ELSE pending
     /\ Return(r, "fresh", ReturnedForm(g), req[r].chatId)
  /\ UNCHANGED <<cfg, now, keys, cache, chats, sight>>

\* An operation in flight completes against the store.
Settle(o) ==
  /\ o \in BagToSet(pending)
  /\ LET known == o.hash \in DOMAIN cache
     IN
     CASE o.op = "addQuery" ->
            /\ cache' = addQuery(cache, Tail(o.hash), o.arg, o.hash)
            /\ pending' = Completed(o)
       [] o.op = "decrementRead" ->
            /\ pending' = IF known
                          THEN Completed(o) (+)
                               SetToBag({Op("decrementWrite", o.by, o.hash,
                                            cache[o.hash].cacheThreshold - 1)})
                          ELSE Completed(o)
            /\ UNCHANGED cache
       [] o.op = "decrementWrite" ->
            /\ cache' = updateCacheThreshold(cache, o.hash, o.arg)
            /\ pending' = Completed(o)
       [] o.op = "cacheResponse" ->
            /\ cache' = updateResponse(cache, o.hash, o.arg)
            /\ pending' = Completed(o)
       [] o.op = "updateLastUsed" ->
            /\ cache' = IF known THEN updateLastUsed(cache, o.hash) ELSE cache
            /\ pending' = Completed(o)
       [] OTHER ->
            /\ cache' = IF known THEN resetCache(cache, o.hash) ELSE cache
            /\ pending' = Completed(o)
  /\ UNCHANGED <<cfg, now, keys, chats, req, last, returned, sight>>

(***************************************************************************)
(* The chat history store called directly.                                 *)
(***************************************************************************)
\* getChatHistory(chatId): the messages stored under the id.
getChatHistory(h, chatId) == h[chatId]

\* The messages a caller can pass in one call.
StoredMessages == {UserMsg("q"), Msg("model", "text", "a")}

Batches ==
  {<< >>} \cup {<<m>> : m \in StoredMessages}
          \cup {<<m, n>> : m \in StoredMessages, n \in StoredMessages}

\* chatHistoryStore.addChatHistory(messages)
AddChatHistory(messages) ==
  /\ Cardinality(DOMAIN chats) < MaxChats
  /\ chats' = addChatHistory(chats, messages)
  /\ UNCHANGED <<pending, cfg, now, keys, cache, req, last, returned, sight>>

\* What a call of the history store hands to its caller: the in-memory
\* updateChatHistory and addMessages resolve to true or false, the Firestore
\* ones resolve to nothing or reject (update of a missing document), and
\* getChatHistory of either store resolves to the messages or throws.
HistoryCallResult(op, h, chatId) ==
  IF chatId \in DOMAIN h
  THEN IF op = "getChatHistory" THEN "messages"
       ELSE IF cfg.history = "memory" THEN "true" ELSE "void"
  ELSE IF op # "getChatHistory" /\ cfg.history = "memory" THEN "false" ELSE "throw"

\* updateChatHistory(chatId, messages): the stored messages are overwritten.
updateChatHistory(h, chatId, messages) ==
  IF chatId \in DOMAIN h THEN [h EXCEPT ![chatId] = messages] ELSE h

\* chatHistoryStore.addMessages(chatId, messages)
AddMessages(chatId, messages) ==
  /\ chatId \in DOMAIN chats => Len(chats[chatId]) + Len(messages) <= MaxMessages
  /\ chats' = IF cfg.history = "memory"
              THEN addMessagesInMemory(chats, chatId, messages)
              ELSE addMessagesFirestore(chats, chatId, messages)
  /\ last' = [NoLast EXCEPT !.out = HistoryCallResult("addMessages", chats, chatId),
                            !.chatId = chatId]
  /\ UNCHANGED <<pending, cfg, now, keys, cache, req, returned, sight>>

\* chatHistoryStore.updateChatHistory(chatId, messages)
UpdateChatHistory(chatId, messages) ==
  /\ chats' = updateChatHistory(chats, chatId, messages)
  /\ last' = [NoLast EXCEPT !.out = HistoryCallResult("updateChatHistory", chats, chatId),
                            !.chatId = chatId]
  /\ UNCHANGED <<pending, cfg, now, keys, cache, req, returned, sight>>

\* chatHistoryStore.getChatHistory(chatId)
GetChatHistory(chatId) ==
  /\ last' = [NoLast EXCEPT !.out = HistoryCallResult("getChatHistory", chats, chatId),
                            !.chatId = chatId]
  /\ UNCHANGED <<pending, cfg, now, keys, cache, chats, req, returned, sight>>

(***************************************************************************)
(* The cache store called directly.                                        *)
(***************************************************************************)
CacheStores == {"memory", "firestore"}

\* getRecord(hash): what the caller receives.  InMemoryCacheStore throws
\* when the map has no entry; FirestoreCacheStore returns record.data(),
\* which is undefined for a document that does not exist.
getRecord(store, c, hash) ==
  IF hash \in DOMAIN c THEN "record"
  ELSE IF store = "memory" THEN "throw" ELSE "undefined"

\* cacheStore.getRecord(hash) on the store of the given kind
GetRecord(store, hash) ==
  /\ last' = [NoLast EXCEPT
                !.out = getRecord(store, cache, hash),
                !.response = IF hash \in DOMAIN cache THEN cache[hash].response
                             ELSE NoResponse]
  /\ UNCHANGED <<pending, cfg, now, keys, cache, chats, req, returned, sight>>

(***************************************************************************)
(* The API key store called directly.                                      *)
(***************************************************************************)
KeyStores == {"memory", "firestore"}

\* An optional field that the caller leaves out: a status or an endpoint
\* list, and a request count.
Absent == "absent"
AbsentCount == -1

\* A verifyAPIKey that counts the call as a use of the key.
verifyAPIKeyCounts(k, key) ==
  [valid |-> key \in DOMAIN k /\ k[key].status = "active",
   keys |-> IF key \in DOMAIN k THEN incrementRequests(k, key) ELSE k]

\* verifyAPIKey(key): the key is stored and active; the store after the call.
verifyAPIKey(k, key) ==
  [valid |-> key \in DOMAIN k /\ k[key].status = "active", keys |-> k]

\* The JavaScript truth value of an optional argument: undefined and 0 are
\* false, a status, "all" and every array (the empty one too) are true.
Truthy(v) == v # Absent
TruthyCount(n) == n # AbsentCount /\ n # 0

\* The fields updateKey writes.  InMemoryAPIKeyStore destructures
\* {key, status, flows, requests}, so the endpoints property of the
\* interface's argument never reaches it; FirestoreAPIKeyStore builds the
\* update from {status, endpoints, requests}.  Both keep a field only when
\* its value is truthy.
valuesToUpdate(store, status, endpoints, requests) ==
  [status |-> Truthy(status),
   endpoints |-> store = "firestore" /\ Truthy(endpoints),
   requests |-> TruthyCount(requests)]

\* updateKey throws for a key that is not stored ("API key not found", or
\* the rejected update of a missing document); the Firestore update also
\* rejects when there is no field to write.
updateKeyThrows(store, k, key, status, endpoints, requests) ==
  \/ key \notin DOMAIN k
  \/ /\ store = "firestore"
     /\ ~valuesToUpdate(store, status, endpoints, requests).status
     /\ ~valuesToUpdate(store, status, endpoints, requests).endpoints
     /\ ~valuesToUpdate(store, status, endpoints, requests).requests

updateKey(store, k, key, status, endpoints, requests) ==
  IF updateKeyThrows(store, k, key, status, endpoints, requests) THEN k
  ELSE [k EXCEPT
          ![key].status = IF valuesToUpdate(store, status, endpoints, requests).status
                          THEN status ELSE @,
          ![key].endpoints = IF valuesToUpdate(store, status, endpoints, requests).endpoints
                             THEN endpoints ELSE @,
          ![key].requests = IF valuesToUpdate(store, status, endpoints, requests).requests
                            THEN requests ELSE @]

\* apiKeyStore.verifyAPIKey(key)
VerifyAPIKey(key) ==
  /\ keys' = verifyAPIKey(keys, key).keys
  /\ last' = [NoLast EXCEPT
                !.out = IF verifyAPIKey(keys, key).valid THEN "valid" ELSE "invalid",
                !.key = key]
  /\ UNCHANGED <<pending, cfg, now, cache, chats, req, returned, sight>>

\* apiKeyStore.updateKey({key, status, endpoints, requests}) on the store
\* of the given kind
UpdateKey(store, key, status, endpoints, requests) ==
  /\ keys' = updateKey(store, keys, key, status, endpoints, requests)
  /\ last' = [NoLast EXCEPT
                !.out = IF updateKeyThrows(store, keys, key, status, endpoints, requests)
                        THEN "throw"
                        ELSE IF store = "memory" THEN "true" ELSE "void",
                !.key = key]
  /\ UNCHANGED <<pending, cfg, now, cache, chats, req, returned, sight>>

(***************************************************************************)
(* Observation of an endless run.                                          *)
(***************************************************************************)
\* The counts of returned requests and of sightings are history variables
\* that no code reads.  When every request of a window of MaxRequests has
\* returned, the window moves on and they start again, so that a client
\* can repeat a request without end over finitely many states.  The hit
\* counter of a record is program state and keeps growing with every hit;
\* the observation ends when it has reached MaxRequests.
Recount ==
  /\ AllIdle
  /\ returned = MaxRequests
  /\ \A hash \in DOMAIN cache : cache[hash].cacheHits < MaxRequests
  /\ returned' = 0
  /\ sight' = [hash \in DOMAIN sight |-> 0]
  /\ UNCHANGED <<pending, cfg, now, keys, cache, chats, req, last>>

(***************************************************************************)
(* The environment: time passes, keys are administered.                    *)
(***************************************************************************)
Tick ==
  /\ now < MaxTime
  /\ now' = now + 1
  /\ UNCHANGED <<pending, cfg, keys, cache, chats, req, last, returned, sight>>

\* cacheStore.addRecord(query, {responseType, response}) called on the store
AddRecord(query, responseType, response) ==
  /\ cfg.enableCache
  /\ cache' = addRecord(cache, query, responseType, response)
  /\ cache' # cache
  /\ sight' = (generateHash(<<query>>) :> 0) @@ sight
  /\ UNCHANGED <<pending, cfg, now, keys, chats, req, last, returned>>

\* One call of apiKeyAuthPolicy against a store, outside any endpoint.
ApplyAuthPolicy(key, uid, apiKeyStore) ==
  /\ keys' = apiKeyStore.keys
  /\ last' = [NoLast EXCEPT
                !.out = IF apiKeyAuthPolicy(key, uid, Endpoint, apiKeyStore) = << >>
                        THEN "pass" ELSE "throw",
                !.response = Val("string", apiKeyAuthPolicy(key, uid, Endpoint, apiKeyStore), ""),
                !.key = key, !.uid = uid]
  /\ UNCHANGED <<pending, cfg, now, cache, chats, req, returned, sight>>

AddKey(key, status, endpoints, uid, requestsLimit) ==
  /\ cfg.enableAuth
  /\ uid # ""
  /\ keys' = addKey(keys, key, status, endpoints, uid, requestsLimit)
  /\ UNCHANGED <<pending, cfg, now, cache, chats, req, last, returned, sight>>

(***************************************************************************)
(* Specifications.  Each one fixes the endpoint configurations it starts   *)
(* from and the sets its inputs are drawn from.                            *)
(***************************************************************************)
Text == OutputSchema("text", "")

\* Cache admission: one client repeats queries on a cache-enabled endpoint,
\* every generation succeeds.
InitAdmit ==
  /\ cfg \in {Config(n, TRUE, "off", FALSE, FALSE) : n \in Thresholds}
  /\ InitStores

NextAdmit ==
  \/ \E query \in {"q", "p"} : Start(1, query, NoChatId, Text, "", "")
  \/ Lookup(1)
  \/ \E g \in GenResults("text") : Generate(1, TRUE, g)
  \/ Finish(1)

SpecAdmit == InitAdmit /\ [][NextAdmit]_vars

\* The cache under concurrent clients: requests of every kind for one query
\* overlap, and a generation may fail.
InitCache ==
  /\ cfg \in {Config(n, TRUE, "off", FALSE, FALSE) : n \in {1, 2}}
  /\ InitStores

NextCache ==
  \E r \in Slots :
    \/ \E outputSchema \in OutputSchemas : Start(r, "q", NoChatId, outputSchema, "", "")
    \/ Lookup(r)
    \/ \E ok \in BOOLEAN, g \in GenResults(req[r].outputSchema.format) : Generate(r, ok, g)
    \/ Finish(r)

SpecCache == InitCache /\ [][NextCache]_vars

\* Expiry: one client repeats a query while time passes.
InitExpiry ==
  /\ cfg \in {Config(n, TRUE, "off", FALSE, FALSE) : n \in {2, 3}}
  /\ InitStores

NextExpiry ==
  \/ Start(1, "q", NoChatId, Text, "", "")
  \/ Lookup(1)
  \/ \E g \in GenResults("text") : Generate(1, TRUE, g)
  \/ Finish(1)
  \/ Tick

SpecExpiry == InitExpiry /\ [][NextExpiry]_vars

\* Conversations: one client sends a query with or without a conversation
\* id to an endpoint with history and cache; a generation may fail.
InitChat ==
  /\ cfg \in {Config(2, TRUE, history, FALSE, FALSE) : history \in {"memory", "firestore"}}
  /\ InitStores

NextChat ==
  \/ \E chatId \in {NoChatId, UnknownChatId} \cup DOMAIN chats :
       Start(1, "q", chatId, Text, "", "")
  \/ Load(1)
  \/ Lookup(1)
  \/ HitHistory(1)
  \/ \E ok \in BOOLEAN, g \in GenResults("text") : Generate(1, ok, g)
  \/ HistoryWrite(1)
  \/ Finish(1)

SpecChat == InitChat /\ [][NextChat]_vars

\* Authorization: keys are administered while one client sends requests with
\* and without valid credentials to an endpoint with every feature enabled.
InitAuth ==
  /\ cfg = Config(2, TRUE, "memory", TRUE, TRUE)
  /\ InitStores

NextAuth ==
  \/ \E query \in Queries, key \in {"", "k1", "k2"}, uid \in {"", "u1", "u2"} :
       Start(1, query, NoChatId, Text, key, uid)
  \/ \E status \in {"default", "active", "disabled"},
        endpoints \in {"default", "all", Endpoint, "other"} :
       AddKey("k1", status, endpoints, "u1", RequestsLimit)
  \/ Lookup(1)
  \/ \E ok \in BOOLEAN : Retrieve(1, ok)
  \/ \E ok \in BOOLEAN, g \in GenResults("text") : Generate(1, ok, g)
  \/ Finish(1)

SpecAuth == InitAuth /\ [][NextAuth]_vars

\* Faults after the lookup: the generator may return an empty text for a text
\* request, and a media request may ask for another content type than the cached one.
EmptyText == Val("string", "", "")

InitFaults ==
  /\ cfg = Config(2, TRUE, "off", FALSE, FALSE)
  /\ InitStores

NextFaults ==
  \/ \E outputSchema \in {Text, OutputSchema("media", "png"), OutputSchema("media", "jpeg")} :
       Start(1, "q", NoChatId, outputSchema, "", "")
  \/ Lookup(1)
  \/ \E ok \in BOOLEAN,
        g \in GenResults(req[1].outputSchema.format)
                \cup (IF req[1].outputSchema.format = "text" THEN {EmptyText} ELSE {}) :
       Generate(1, ok, g)
  \/ Finish(1)

SpecFaults == InitFaults /\ [][NextFaults]_vars

\* The Firestore cache store under concurrent clients repeating one query.
InitFirestoreCache ==
  /\ cfg = Config(1, TRUE, "off", FALSE, FALSE)
  /\ InitStores

NextFirestoreCache ==
  \/ \E r \in Slots :
       \/ Started < MaxFirestoreRequests /\ Start(r, "q", NoChatId, Text, "", "")
       \/ LookupFirestore(r)
       \/ \E g \in GenResults("text") : Generate(r, TRUE, g)
       \/ FinishFirestore(r)
  \/ \E o \in BagToSet(pending) : Settle(o)
  \/ Tick

SpecFirestoreCache == InitFirestoreCache /\ [][NextFirestoreCache]_vars

\* The history store on its own: conversations are created and appended to.
InitHistoryStore ==
  /\ cfg \in {Config(1, FALSE, history, FALSE, FALSE) : history \in {"memory", "firestore"}}
  /\ InitStores

NextHistoryStore ==
  \/ \E messages \in Batches : AddChatHistory(messages)
  \/ \E chatId \in DOMAIN chats \cup {UnknownChatId} :
       \/ \E messages \in Batches : AddMessages(chatId, messages)
       \/ \E messages \in Batches : UpdateChatHistory(chatId, messages)
       \/ GetChatHistory(chatId)

SpecHistoryStore == InitHistoryStore /\ [][NextHistoryStore]_vars

\* Turns of conversations: two clients send one of two queries, with or
\* without the id of a stored conversation, to an endpoint with history and
\* without cache; a generation may fail.
InitTurns ==
  /\ cfg \in {Config(1, FALSE, history, FALSE, FALSE) : history \in {"memory", "firestore"}}
  /\ InitStores

NextTurns ==
  \E r \in Slots :
    \/ \E query \in {"q", "p"}, chatId \in {NoChatId} \cup DOMAIN chats :
         Start(r, query, chatId, Text, "", "")
    \/ Load(r)
    \/ \E ok \in BOOLEAN, g \in GenResults("text") : Generate(r, ok, g)
    \/ HistoryWrite(r)
    \/ Finish(r)

SpecTurns == InitTurns /\ [][NextTurns]_vars

\* New conversations: one client repeats a query without a conversation id
\* on endpoints of every agent configuration, with history and cache; an
\* omitted agentType is "".
AgentConfigs ==
  {[Config(2, TRUE, history, FALSE, rag) EXCEPT !.agentType = agentType] :
     history \in {"memory", "firestore"}, rag \in BOOLEAN,
     agentType \in {"", "open-ended", "close-ended"}}

InitSeed ==
  /\ cfg \in {c \in AgentConfigs : ~(c.enableRAG /\ c.agentType = "open-ended")}
  /\ InitStores

NextSeed ==
  \/ Start(1, "q", NoChatId, Text, "", "")
  \/ Lookup(1)
  \/ HitHistory(1)
  \/ Retrieve(1, TRUE)
  \/ \E g \in GenResults("text") : Generate(1, TRUE, g)
  \/ HistoryWrite(1)
  \/ Finish(1)

SpecSeed == InitSeed /\ [][NextSeed]_vars

\* The cache filled from outside: one client repeats a query while records
\* are added to the store directly.
InitPrefill ==
  /\ cfg \in {Config(n, TRUE, "off", FALSE, FALSE) : n \in {2, 3}}
  /\ InitStores

NextPrefill ==
  \/ Start(1, "q", NoChatId, Text, "", "")
  \/ Lookup(1)
  \/ \E g \in GenResults("text") : Generate(1, TRUE, g)
  \/ Finish(1)
  \/ \E query \in Queries, g \in GenResults("text") : AddRecord(query, "text", g)

SpecPrefill == InitPrefill /\ [][NextPrefill]_vars

\* The authorization policy on its own: it is called with every combination
\* of token, owner id and key store, the store being absent, or holding no
\* record, or holding one record for "k1".
APIKeyRecords ==
  [requests : 0..RequestsLimit, status : {"active", "disabled"},
   endpoints : {"all", "none", Endpoint, "other"}, uid : {"u1"},
   requestsLimit : {0, RequestsLimit}]

APIKeyStores ==
  {[initialized |-> FALSE, keys |-> << >>], [initialized |-> TRUE, keys |-> << >>]}
    \cup {[initialized |-> TRUE, keys |-> ("k1" :> apiKey)] : apiKey \in APIKeyRecords}

InitAuthPolicy ==
  /\ cfg = Config(1, FALSE, "off", TRUE, FALSE)
  /\ InitStores

NextAuthPolicy ==
  \E key \in {"", "k1"}, uid \in {"u1", "u2"}, apiKeyStore \in APIKeyStores :
     ApplyAuthPolicy(key, uid, apiKeyStore)

SpecAuthPolicy == InitAuthPolicy /\ [][NextAuthPolicy]_vars

\* RAG with and without a retriever: one client sends greetings and queries, with and
\* without an unknown conversation id, to an endpoint with history and cache
\* whose cache store may be filled from outside.
InitRag ==
  /\ cfg \in {[Config(2, TRUE, "memory", FALSE, TRUE) EXCEPT !.retriever = retriever] :
                retriever \in {"instance", "none", "undefined"}}
  /\ InitStores

NextRag ==
  \/ \E query \in Queries, chatId \in {NoChatId, UnknownChatId} :
       Start(1, query, chatId, Text, "", "")
  \/ Load(1)
  \/ Lookup(1)
  \/ \E ok \in BOOLEAN : Retrieve(1, ok)
  \/ \E ok \in BOOLEAN, g \in GenResults("text") : Generate(1, ok, g)
  \/ Finish(1)
  \/ \E g \in GenResults("text") : AddRecord("q", "text", g)

SpecRag == InitRag /\ [][NextRag]_vars

\* The cache store on its own: records are added and fetched by hash, on
\* either kind of store, while time passes.
StoreQueries == {"q", "p"}

InitCacheStore ==
  /\ cfg = Config(2, TRUE, "off", FALSE, FALSE)
  /\ InitStores

NextCacheStore ==
  \/ \E query \in StoreQueries, g \in GenResults("text") : AddRecord(query, "text", g)
  \/ \E store \in CacheStores, query \in StoreQueries :
       GetRecord(store, generateHash(<<query>>))
  \/ Tick

SpecCacheStore == InitCacheStore /\ [][NextCacheStore]_vars

\* The key store on its own: a key is added, verified and updated; "k2" is
\* never added.
StoreKeys == {"k1", "k2"}
Statuses == {"active", "disabled"}
EndpointLists == {"all", "none", Endpoint}

InitKeyStore ==
  /\ cfg = Config(2, FALSE, "off", TRUE, FALSE)
  /\ InitStores

NextKeyStore ==
  \/ \E status \in {"default"} \cup Statuses, endpoints \in {"default"} \cup EndpointLists :
       AddKey("k1", status, endpoints, "u1", RequestsLimit)
  \/ \E key \in StoreKeys : VerifyAPIKey(key)
  \/ \E store \in KeyStores, key \in StoreKeys, status \in {Absent} \cup Statuses,
        endpoints \in {Absent} \cup EndpointLists,
        requests \in {AbsentCount} \cup (0..RequestsLimit) :
       UpdateKey(store, key, status, endpoints, requests)

SpecKeyStore == InitKeyStore /\ [][NextKeyStore]_vars

\* One client repeats one text query without end on the in-memory cache
\* store; a generation may fail.  The handler's continuations are run by the
\* event loop and the client sends the next request when the previous one
\* has returned, so a step that stays possible is eventually taken.
InitRepeat ==
  /\ cfg \in {Config(n, TRUE, "off", FALSE, FALSE) : n \in {1, 2, 3}}
  /\ InitStores

NextRepeat ==
  \/ Start(1, "q", NoChatId, Text, "", "")
  \/ Lookup(1)
  \/ \E ok \in BOOLEAN, g \in GenResults("text") : Generate(1, ok, g)
  \/ Finish(1)
  \/ Recount

SpecRepeat == InitRepeat /\ [][NextRepeat]_vars

SpecRepeatFair == SpecRepeat /\ WF_vars(NextRepeat)

\* Two endpoints side by side, driven by the same requests: endpoint 1
\* keeps its records in an InMemoryCacheStore and is asked "q", endpoint 2
\* keeps them in a FirestoreCacheStore and is asked "p".  Neither store
\* relates records of different hashes, so cache holds the record of the
\* first store under the hash of "q" and that of the second under the hash
\* of "p".  Each client sends its next request when the previous one has
\* returned, and the second one when the store's writes have completed.
InMemoryEndpoint == 1
FirestoreEndpoint == 2

InitStoreKinds ==
  /\ cfg \in {Config(n, TRUE, "off", FALSE, FALSE) : n \in {1, 2}}
  /\ InitStores

NextStoreKinds ==
  \/ Start(InMemoryEndpoint, "q", NoChatId, Text, "", "")
  \/ Lookup(InMemoryEndpoint)
  \/ Finish(InMemoryEndpoint)
  \/ pending = EmptyBag /\ Start(FirestoreEndpoint, "p", NoChatId, Text, "", "")
  \/ LookupFirestore(FirestoreEndpoint)
  \/ FinishFirestore(FirestoreEndpoint)
  \/ \E o \in BagToSet(pending) : Settle(o)
  \/ \E r \in Slots, g \in GenResults("text") : Generate(r, TRUE, g)

SpecStoreKinds == InitStoreKinds /\ [][NextStoreKinds]_vars

\* Fingerprints of requests that continue conversations: conversations are
\* created on the store with a first exchange whose model message is a
\* text or one of two media parts, and two clients continue them with the
\* same query.
FirstExchanges ==
  {<<UserMsg("q"), m>> :
     m \in {Msg("model", "text", "a"), Msg("model", "media", "u"), Msg("model", "media", "v")}}

InitFingerprint ==
  /\ cfg = Config(2, TRUE, "memory", FALSE, FALSE)
  /\ InitStores

NextFingerprint ==
  \/ \E messages \in FirstExchanges : AddChatHistory(messages)
  \/ \E r \in Slots :
       \/ \E chatId \in DOMAIN chats : Start(r, "q", chatId, Text, "", "")
       \/ Load(r)
       \/ Lookup(r)
       \/ \E g \in GenResults("text") : Generate(r, TRUE, g)
       \/ Finish(r)

SpecFingerprint == InitFingerprint /\ [][NextFingerprint]_vars

(***************************************************************************)
(* Properties.                                                             *)
(***************************************************************************)
N == cfg.cacheQueryAfterThreshold

\* Slot r leaves the cache lookup in this step.
LooksUp(r) == req[r].pc = "lookup" /\ req'[r].pc # "lookup"

\* Slot r is answered from the cache in this step.
AnsweredFromCache(r) ==
  /\ LooksUp(r)
  /\ req'[r].pc \in {"idle", "hitHistory"}

\* C1: when the same request is repeated and every generation succeeds, the
\* Nth sighting of a fingerprint, and only the Nth, takes its record from
\* no-payload to payload-present (so between requests the record holds a
\* payload exactly when it was sighted at least N times), and each sighting
\* before the Nth of an existing record lowers the countdown by exactly 1.
C1_AdmissionAtNthSighting ==
  [][\A h \in DOMAIN cache' :
       /\ AllIdle' => (HasResponse(cache'[h]) <=> sight'[h] >= N)
       /\ (h \in DOMAIN cache /\ sight'[h] = sight[h] + 1 /\ sight'[h] < N)
            => cache'[h].cacheThreshold = cache[h].cacheThreshold - 1]_vars

\* C3: after the same request was issued N times in sequence with successful
\* generation, the next identical request is answered from the cache: the
\* generator is not invoked and the record's hit counter is positive.
C3_HitAfterNSightings ==
  [][\A r \in Slots :
       (LooksUp(r) /\ req[r].queryHash \in DOMAIN sight /\ sight[req[r].queryHash] >= N)
         => /\ AnsweredFromCache(r)
            /\ returned' = returned + 1
            /\ last'.out = "hit" /\ ~last'.gen
            /\ cache'[req[r].queryHash].cacheHits > 0]_vars

\* C2: in every reachable state, whatever the interleaving and whether or
\* not generations fail, a record without a payload has a countdown above 0.
C2_PendingRecordCountsDown ==
  \A h \in DOMAIN cache : ~HasResponse(cache[h]) => cache[h].cacheThreshold > 0

\* C6: a response cached under one kind is never returned to a request that
\* declares a different kind: a lookup that finds a payload of another kind
\* answers nothing and goes on to generation, and whenever a request is
\* answered from the cache the record's kind is the kind it declared.
C6_KindsNeverCross ==
  [][\A r \in Slots :
       LET hash == req[r].queryHash
           other == /\ hash \in DOMAIN cache
                    /\ HasResponse(cache[hash])
                    /\ cache[hash].responseType # req[r].outputSchema.format
       IN
       /\ (LooksUp(r) /\ other) =>
             /\ req'[r].pc = AfterCache
             /\ UNCHANGED <<last, returned>>
       /\ AnsweredFromCache(r) => ~other]_vars

\* A request is about to generate after its lookup found a payload of
\* another kind.
C6_Witness ==
  \E r \in Slots : req[r].pc = "generate" /\ req[r].found = "otherKind"

\* C9: for every kind, the response returned on a cache hit equals, in value
\* and shape, the response the fresh generation that populated the record
\* returned (the returned form of the generated result whose cached form is
\* the record's payload).
C9_HitEqualsFresh ==
  [][\A r \in Slots :
       AnsweredFromCache(r) =>
         \A g \in GenResults(req[r].outputSchema.format) :
           CachedForm(g) = cache[req[r].queryHash].response
             => last'.response = ReturnedForm(g)]_vars

\* Slot r looks up a record that holds a payload whose expiry lies before now.
FindsExpired(r) ==
  /\ LooksUp(r)
  /\ req[r].queryHash \in DOMAIN cache
  /\ HasResponse(cache[req[r].queryHash])
  /\ isExpired(cache[req[r].queryHash])

\* C7: a record whose expiry is earlier than the current time is never used
\* to answer a request: its lookup answers nothing and goes on to generation.
C7_ExpiredNeverServed ==
  [][\A r \in Slots :
       FindsExpired(r) =>
         /\ ~AnsweredFromCache(r)
         /\ req'[r].pc = AfterCache
         /\ UNCHANGED <<last, returned>>]_vars

\* A request is about to generate after its lookup found an expired payload.
C7_Witness ==
  \E r \in Slots : req[r].pc = "generate" /\ req[r].found = "expired"

\* C8: on expiry detection the record is reset (payload cleared, countdown
\* restored to N) and admission starts over: the detecting sighting counts as
\* sighting 1 of N, and a payload is attached to a record only by the request
\* that was its Nth sighting since the record was registered or reset.
C8_ExpiryRestartsAdmission ==
  [][\A r \in Slots :
       LET hash == req[r].queryHash IN
       /\ FindsExpired(r) =>
            /\ ~HasResponse(cache'[hash])
            /\ cache'[hash].cacheThreshold = N
            /\ sight'[hash] = 1
       /\ (/\ req[r].pc = "finish"
           /\ hash \in DOMAIN cache
           /\ ~HasResponse(cache[hash])
           /\ HasResponse(cache'[hash])) => req[r].nth = N]_vars

\* A record that was reset on expiry holds a payload again, attached at the
\* Nth sighting since the reset.
C8_Witness ==
  \E h \in DOMAIN cache :
    /\ cache[h].lastAccessed # NoTime
    /\ HasResponse(cache[h])
    /\ sight[h] = N

\* The scenario of C4, seen from the k-th call: threshold 2, in-memory
\* history, k - 1 calls have returned, they left the single conversation 1,
\* and the call in progress repeats the query with that conversation's id.
InScenario(k) ==
  /\ cfg.history = "memory" /\ N = 2
  /\ returned = k - 1
  /\ DOMAIN chats = {1}
  /\ req[1].chatIdIn = 1 /\ req[1].query = "q"

HitReturns(r) ==
  /\ req[r].pc \in {"lookup", "hitHistory"}
  /\ req'[r].pc = "idle"
  /\ returned' = returned + 1
  /\ last'.out = "hit"

\* C5: on an endpoint with history and cache, every request served from the
\* cache for a supplied conversation id appends exactly the user message and
\* the cached model response to that conversation and returns the same id,
\* so the stored history grows by two messages per turn.
C5_HitAppendsTurn ==
  [][\A r \in Slots :
       (HitReturns(r) /\ req[r].chatId # NoChatId)
         => /\ last'.chatId = req[r].chatId
            /\ chats'[req[r].chatId] =
                 chats[req[r].chatId]
                   \o <<UserMsg(req[r].query), Msg("model", "text", last'.response.v)>>]_vars

\* The credentials pass every test of the authorization step against the
\* current key store.
Authorized(key, uid) ==
  /\ key # "" /\ uid # ""
  /\ key \in DOMAIN keys
  /\ keys[key].status # "disabled"
  /\ keys[key].uid = uid
  /\ keys[key].requestsLimit = 0 \/ keys[key].requests < keys[key].requestsLimit
  /\ keys[key].endpoints \in {"all", Endpoint}

Enters(r) == req[r].pc = "idle" /\ req'[r].pc # "idle"

\* A request is answered with the greeting in this step.
Greets == returned' = returned + 1 /\ last'.out = "greet"

\* C11: whatever credential-store operations and requests came before, a
\* request is authorized (enters the pipeline, or is greeted) only with a
\* credential whose status at that time is active; a credential added
\* without an explicit status is stored as disabled and authorizes nothing.
C11_OnlyActiveKeysAuthorize ==
  [][/\ \A r \in Slots :
          Enters(r) => /\ req'[r].key \in DOMAIN keys
                       /\ keys[req'[r].key].status = "active"
     /\ Greets => /\ last'.key \in DOMAIN keys
                  /\ keys[last'.key].status = "active"
     /\ \A k \in DOMAIN keys' : keys'[k].status \in {"active", "disabled"}]_vars

\* A request presenting its owner's id and a key that carries the defaults of
\* addKey (disabled, no endpoints) has been refused.
C11_Witness ==
  /\ last.out = "throw"
  /\ last.key \in DOMAIN keys
  /\ keys[last.key].status = "disabled" /\ keys[last.key].endpoints = "none"
  /\ last.uid = keys[last.key].uid

\* C12: a credential added with request limit L authorizes at most L
\* requests; every key is added with limit RequestsLimit, and its usage
\* counter counts the requests it has authorized since.
C12_LimitBoundsAuthorizedRequests ==
  \A k \in DOMAIN keys : keys[k].requests <= RequestsLimit

C14_UnknownChatIdIsTerminal ==
  [][\A r \in Slots :
       (req[r].pc = "load" /\ req[r].chatId \notin DOMAIN chats /\ req'[r] # req[r])
         => /\ req'[r].pc = "idle"
            /\ returned' = returned + 1
            /\ last'.out = "error" /\ ~last'.gen
            /\ UNCHANGED <<chats, cache, sight>>]_vars

\* A request with an unknown conversation id has ended in an error without
\* generation, on an endpoint that already holds conversations and records.
C14_Witness ==
  /\ AllIdle
  /\ last.out = "error" /\ ~last.gen
  /\ DOMAIN chats # {} /\ DOMAIN cache # {}

\* C15: every request, whatever stage fails, ends by returning a success
\* response or an object {error: string}; no failure leaves the endpoint as
\* a thrown exception.
C15_NoFailureIsThrown ==
  last.out \in {"none", "greet", "hit", "fresh", "error"}

\* C16: when generation has succeeded and the cache write (or the history
\* write) that follows it fails, the caller still receives the successful
\* response, not an error.
C16_WriteFailureKeepsResponse ==
  [][\A r \in Slots :
       /\ (req[r].pc = "finish" /\ req'[r] # req[r])
            => /\ last'.out = "fresh"
               /\ last'.response = ReturnedForm(req[r].res)
       /\ (req[r].pc = "historyWrite" /\ req'[r] # req[r])
            => req'[r].pc = "finish"]_vars

\* C17: when on a cache hit the stored payload cannot be rebuilt as the
\* expected kind, the request ends with an error returned to the caller and
\* is not turned into any other outcome.
C17_UnparsablePayloadIsAnError ==
  [][\A r \in Slots :
       LET hash == req[r].queryHash IN
       (/\ LooksUp(r)
        /\ hash \in DOMAIN cache
        /\ HasResponse(cache[hash])
        /\ cache[hash].responseType = req[r].outputSchema.format
        /\ ~isExpired(cache[hash])
        /\ ~CachedParses(cache[hash], req[r].outputSchema))
         => /\ req'[r].pc = "idle"
            /\ returned' = returned + 1
            /\ last'.out = "error"]_vars

\* C18: a request with an empty query returns the greeting without any
\* other pipeline state being entered, also on an endpoint with
\* authorization: no usage counter or key record, no cache record and no
\* conversation changes, and neither retriever nor generator runs.
C18_GreetingTouchesNothing ==
  [][Greets => /\ UNCHANGED <<keys, cache, chats, req, sight>>
               /\ ~last'.gen]_vars


Payload(record) ==
  [responseType |-> record.responseType, response |-> record.response,
   expiry |-> record.expiry]

Writes(o, hash) == o.op = "cacheResponse" /\ o.hash = hash

\* C19: when the cache writes of concurrent requests with one fingerprint land
\* on the record, each landing leaves the record holding the payload, kind and
\* expiry of that write and of no other (so the last one wins), and no step
\* leaves a record with a payload that is not wholly the payload of one write.
C19_LastWriteWinsWhole ==
  [][/\ \A o \in BagToSet(pending) :
          (Settle(o) /\ o.hash \in DOMAIN cache /\ Writes(o, o.hash)) =>
             /\ HasResponse(cache'[o.hash])
             /\ Payload(cache'[o.hash]) = o.arg
     /\ \A hash \in DOMAIN cache \cap DOMAIN cache' :
          (Payload(cache'[hash]) # Payload(cache[hash]) /\ HasResponse(cache'[hash])) =>
             \E o \in BagToSet(pending) :
                Writes(o, hash) /\ Payload(cache'[hash]) = o.arg]_vars

\* C19 witness: the record already holds the write of one request and the
\* write of a concurrent request, with another response and another expiry,
\* is about to land on it.
C19_Witness ==
  \E o \in BagToSet(pending) :
     /\ o.hash \in DOMAIN cache
     /\ Writes(o, o.hash)
     /\ HasResponse(cache[o.hash])
     /\ cache[o.hash].response # o.arg.response
     /\ cache[o.hash].expiry # o.arg.expiry

\* C20: every store operation a request issues takes effect before the
\* request returns its response: no operation completes against the store
\* while the slot that issued it is idle again.
C20_NoWriteAfterResponse ==
  [][\A o \in BagToSet(pending) : Settle(o) => req[o.by].pc # "idle"]_vars


\* C22: on either history store, appending a batch of messages to a stored
\* conversation makes the fetched history the previous history followed by
\* exactly the batch, in order, so K appended messages add K to its length.
C22_FetchIsInitialThenAppended ==
  [][\A chatId \in DOMAIN chats, messages \in Batches :
       AddMessages(chatId, messages)
         => /\ getChatHistory(chats', chatId) = getChatHistory(chats, chatId) \o messages
            /\ Len(getChatHistory(chats', chatId))
                 = Len(getChatHistory(chats, chatId)) + Len(messages)]_vars


\* Slot r stores the messages of a freshly generated turn in this step.
StoresTurn(r) ==
  \/ req[r].pc = "generate" /\ req'[r].pc = "finish" /\ cfg.history = "memory"
  \/ req[r].pc = "historyWrite" /\ req'[r].pc = "finish"

\* C21: a conversation changes only in the step that stores the turn of a
\* generation that has completed successfully, a request that ends in an
\* error stores nothing, and so every user message of a stored conversation
\* is directly followed by its model reply.
C21_HistoryFollowsGeneration ==
  [][/\ chats' # chats => \E r \in Slots : StoresTurn(r) /\ req'[r].gen
     /\ (returned' = returned + 1 /\ last'.out = "error") => chats' = chats
     /\ \A chatId \in DOMAIN chats' : \A i \in 1..Len(chats'[chatId]) :
          chats'[chatId][i].role = "user"
            => /\ i < Len(chats'[chatId])
               /\ chats'[chatId][i + 1].role = "model"]_vars

\* C23: a freshly generated turn on a stored conversation appends exactly
\* the new user message and the new model message to it and leaves every
\* earlier message in place.
C23_TurnAppendsExactlyTwo ==
  [][\A r \in Slots :
       (StoresTurn(r) /\ req[r].chatId # NoChatId)
         => chats'[req[r].chatId] =
              chats[req[r].chatId]
                \o <<UserMsg(req[r].query), GeneratedModelMsg(req'[r].res)>>]_vars


\* C24: a conversation created by a request without a conversation id holds
\* one system message with the system prompt text of the endpoint's agent
\* variant, then the user message, then the model message, whether the
\* response was generated or served from the cache.
C24_SeedIsAgentSystemPrompt ==
  [][\A chatId \in DOMAIN chats' \ DOMAIN chats :
       \E r \in Slots :
          /\ req[r].pc # "idle"
          /\ Len(chats'[chatId]) = 3
          /\ chats'[chatId][1] = SystemMsg(ChatAgentType)
          /\ chats'[chatId][2] = UserMsg(req[r].query)
          /\ chats'[chatId][3].role = "model"]_vars


\* Slot r returns a generated or cached response in this step.
Succeeds(r) ==
  /\ req[r].pc # "idle" /\ req'[r].pc = "idle"
  /\ returned' = returned + 1
  /\ last'.out \in {"hit", "fresh"}

\* C25: on an endpoint with history, every generated or cached response
\* carries the id of a stored conversation: the supplied id when the request
\* supplied one, else the id of a conversation the request created, which
\* holds its seed only; and only requests without an id create conversations.
C25_ResponseCarriesStoredChatId ==
  [][/\ \A r \in Slots :
          Succeeds(r) =>
            /\ last'.chatId \in DOMAIN chats'
            /\ req[r].chatIdIn # NoChatId => last'.chatId = req[r].chatIdIn
            /\ req[r].chatIdIn = NoChatId =>
                 /\ Len(chats'[last'.chatId]) = 3
                 /\ chats'[last'.chatId][2] = UserMsg(req[r].query)
     /\ \A chatId \in DOMAIN chats' \ DOMAIN chats :
          \E r \in Slots :
             /\ req[r].chatIdIn = NoChatId /\ req[r].pc # "idle"
             /\ chatId \in {req'[r].chatId, last'.chatId}]_vars

\* A cache hit has created the third conversation and returned its id.
C25_Witness ==
  /\ AllIdle
  /\ last.out = "hit" /\ last.chatId = 3
  /\ DOMAIN chats = {1, 2, 3}


\* C26: a record comes to hold a payload only in the step in which a request
\* that found the countdown of its record at 0 writes its generated response
\* with cacheResponse; no other step attaches a payload.
C26_OnlyCacheResponseAttachesPayload ==
  [][\A hash \in DOMAIN cache' :
       (HasResponse(cache'[hash]) /\ (hash \in DOMAIN cache => ~HasResponse(cache[hash])))
         => \E r \in Slots :
               /\ req[r].pc = "finish" /\ req'[r].pc = "idle"
               /\ req[r].queryHash = hash
               /\ req[r].cacheThresholdReached
               /\ hash \in DOMAIN cache /\ cache[hash].cacheThreshold = 0]_vars


\* C27: in every reachable state of a cache store the countdown of every
\* record is an integer from 0 to N: a decrement takes 1 off a positive
\* countdown and leaves a countdown of 0 at 0.
C27_ThresholdStaysWithinRange ==
  \A hash \in DOMAIN cache : cache[hash].cacheThreshold \in 0..N


\* The fields of a record the admission and serving decisions read.
Admission(record) ==
  [cacheThreshold |-> record.cacheThreshold, response |-> record.response,
   responseType |-> record.responseType, expiry |-> record.expiry]

AuthCauses(key, uid, apiKeyStore) ==
  LET found == key # "" /\ apiKeyStore.initialized /\ key \in DOMAIN apiKeyStore.keys
      apiKey == apiKeyStore.keys[key]
  IN {c \in {"notSupplied"} : key = ""}
     \cup {c \in {"storeNotInitialized"} : ~apiKeyStore.initialized}
     \cup {c \in {"notFound"} :
             key # "" /\ apiKeyStore.initialized /\ key \notin DOMAIN apiKeyStore.keys}
     \cup {c \in {"disabled"} : found /\ apiKey.status = "disabled"}
     \cup {c \in {"ownerMismatch"} : found /\ apiKey.uid # uid}
     \cup {c \in {"limitExceeded"} :
             found /\ apiKey.requestsLimit # 0 /\ apiKey.requests >= apiKey.requestsLimit}
     \cup {c \in {"endpointNotAllowed"} : found /\ apiKey.endpoints \notin {"all", Endpoint}}

\* C29: a call of the authorization policy fails exactly when one of the
\* seven causes holds, and two calls that each fail for a single cause,
\* the causes being different, fail with different messages.
C29_EachCauseHasItsOwnMessage ==
  [][\A key \in {"", "k1"}, uid \in {"u1", "u2"}, apiKeyStore \in APIKeyStores :
       ApplyAuthPolicy(key, uid, apiKeyStore) =>
         /\ (AuthCauses(key, uid, apiKeyStore) = {}) = (last'.out = "pass")
         /\ \A key2 \in {"", "k1"}, uid2 \in {"u1", "u2"}, apiKeyStore2 \in APIKeyStores :
              (/\ Cardinality(AuthCauses(key, uid, apiKeyStore)) = 1
               /\ Cardinality(AuthCauses(key2, uid2, apiKeyStore2)) = 1
               /\ AuthCauses(key, uid, apiKeyStore) # AuthCauses(key2, uid2, apiKeyStore2))
                => apiKeyAuthPolicy(key2, uid2, Endpoint, apiKeyStore2) # last'.response.v]_vars

\* A call has failed because the request limit of an active key of the right
\* owner, allowed on the endpoint, was used up.
C29_Witness ==
  /\ last.out = "throw" /\ last.key = "k1" /\ last.uid = "u1"
  /\ "k1" \in DOMAIN keys
  /\ AuthCauses("k1", "u1", [initialized |-> TRUE, keys |-> keys]) = {"limitExceeded"}


\* The endpoint has RAG enabled and neither a retriever nor a retrieverConfig.
NoRetriever == cfg.enableRAG /\ cfg.retriever \in {"none", "undefined"}

\* C30 as stated: on a RAG endpoint configured with neither a retriever nor
\* a retrieverConfig every request ends with a configuration error and the
\* generator is never invoked.
C30_EveryRequestIsConfigurationError ==
  [][(NoRetriever /\ returned' = returned + 1)
       => last'.out = "error" /\ ~last'.gen]_vars

\* C30 amended: on such an endpoint the generator is never invoked and no
\* response is freshly generated; every request that reaches the retrieval
\* stage ends there with an error response, which is the configuration error
\* when the configuration has no retriever key, and stores no conversation.
\* Requests answered before that stage (greeting, unknown conversation id,
\* cache hit) end as on any endpoint.
C30_RetrievalStageEndsInError ==
  [][NoRetriever =>
       /\ \A r \in Slots :
            /\ req'[r].pc \notin {"generate", "historyWrite", "finish"}
            /\ ~req'[r].gen
            /\ (req[r].pc = "retrieve" /\ req'[r] # req[r])
                 => /\ req'[r].pc = "idle"
                    /\ returned' = returned + 1
                    /\ last'.out = "error"
                    /\ cfg.retriever = "none" => last'.response = RetrieverConfigError
                    /\ UNCHANGED <<chats, cache>>
       /\ ~last'.gen
       /\ last'.out \in {"none", "greet", "hit", "error"}]_vars

\* A request has registered its query in the cache and has ended with the
\* configuration error.
C30_Witness ==
  /\ cfg.retriever = "none"
  /\ AllIdle
  /\ last.out = "error" /\ last.response = RetrieverConfigError
  /\ DOMAIN cache # {}


\* The caller of a history store call is told that the call failed: the
\* call throws or rejects.
SignalsFailure(out) == out = "throw"

\* C31: on either history store, overwriting, appending to and fetching a
\* conversation id that does not exist each fail for the caller and leave
\* the store as it was, with no conversation created under that id.
C31_UnknownIdFailsAndStoresNothing ==
  [][\A chatId \in {UnknownChatId}, messages \in Batches :
       (chatId \notin DOMAIN chats
          /\ (\/ UpdateChatHistory(chatId, messages)
              \/ AddMessages(chatId, messages)
              \/ GetChatHistory(chatId)))
         => /\ SignalsFailure(last'.out)
            /\ chats' = chats]_vars

\* The part of C31 that holds: no call on an unknown id changes the store.
C31_UnknownIdStoresNothing ==
  [][\A chatId \in {UnknownChatId}, messages \in Batches :
       (chatId \notin DOMAIN chats
          /\ (\/ UpdateChatHistory(chatId, messages)
              \/ AddMessages(chatId, messages)
              \/ GetChatHistory(chatId)))
         => chats' = chats]_vars


\* C32: on either cache store, getRecord of a fingerprint that has no record
\* fails for the caller; it does not hand back an absent or empty record.
C32_GetRecordOfUnknownFails ==
  [][\A store \in CacheStores, query \in StoreQueries :
       (generateHash(<<query>>) \notin DOMAIN cache
          /\ GetRecord(store, generateHash(<<query>>)))
         => last'.out = "throw"]_vars


\* C33: verifying a token changes nothing in the key store: after any number
\* of verify calls every credential has the usage counter, status and
\* allow-list it had before, and no credential has appeared or gone.
C33_VerifyChangesNoStoreState ==
  [][\A key \in StoreKeys : VerifyAPIKey(key) => keys' = keys]_vars

\* A stored, active key that has been used was verified and found valid.
C33_Witness ==
  /\ last.out = "valid"
  /\ last.key \in DOMAIN keys
  /\ keys[last.key].requests > 0


\* The value a field has after an update that supplied v for it, given the
\* value it had before.
Supplied(v, absent, before) == IF v = absent THEN before ELSE v

\* C39: after update(token, fields) on a stored credential every supplied
\* field (status, allow-list, request count, 0 included) has exactly the
\* supplied value and every other field is unchanged; update on a token
\* that is not stored fails and creates no record.
C39_UpdateSetsExactlySuppliedFields ==
  [][\A store \in KeyStores, key \in StoreKeys, status \in {Absent} \cup Statuses,
        endpoints \in {Absent} \cup EndpointLists,
        requests \in {AbsentCount} \cup (0..RequestsLimit) :
       UpdateKey(store, key, status, endpoints, requests)
         => IF key \in DOMAIN keys
            THEN keys' = [keys EXCEPT
                            ![key].status = Supplied(status, Absent, @),
                            ![key].endpoints = Supplied(endpoints, Absent, @),
                            ![key].requests = Supplied(requests, AbsentCount, @)]
            ELSE last'.out = "throw" /\ keys' = keys]_vars

\* The part of C39 about unknown tokens: the update fails, nothing is stored.
C39_UpdateOfUnknownFails ==
  [][\A store \in KeyStores, key \in StoreKeys, status \in {Absent} \cup Statuses,
        endpoints \in {Absent} \cup EndpointLists,
        requests \in {AbsentCount} \cup (0..RequestsLimit) :
       (key \notin DOMAIN keys /\ UpdateKey(store, key, status, endpoints, requests))
         => last'.out = "throw" /\ keys' = keys]_vars


\* The repeated query's record holds a response.
RepeatedIsCached ==
  /\ generateHash(<<"q">>) \in DOMAIN cache
  /\ HasResponse(cache[generateHash(<<"q">>)])

\* A generation fails in this step.
GenerationFails ==
  \E r \in Slots, g \in GenResults("text") : Generate(r, FALSE, g)

\* C34: for every admission threshold, when the same request is repeated
\* without end and only finitely many of its generations fail, whichever
\* they are, the response is eventually cached for good and requests are
\* served from the cache again and again.
C34_RepeatedQueryIsEventuallyCached ==
  (<>[][~GenerationFails]_vars)
    => (<>[]RepeatedIsCached /\ []<>(last.out = "hit"))


\* C35: while a record holds a payload that has not expired, no step takes
\* the record away, removes or replaces the payload, lowers the hit counter
\* or puts the threshold back up; in particular a failing lookup of such a
\* record does not register its fingerprint as a new query.
C35_AttachedPayloadIsKept ==
  [][\A hash \in DOMAIN cache :
       (HasResponse(cache[hash]) /\ ~isExpired(cache[hash]))
         => /\ hash \in DOMAIN cache'
            /\ cache'[hash].response = cache[hash].response
            /\ cache'[hash].cacheHits >= cache[hash].cacheHits
            /\ cache'[hash].cacheThreshold <= cache[hash].cacheThreshold]_vars


\* Both endpoints have seen their query the same number of times, every
\* request has returned and every store write has completed.
SameRequestsServed ==
  /\ AllIdle
  /\ pending = EmptyBag
  /\ generateHash(<<"q">>) \in DOMAIN cache
  /\ generateHash(<<"p">>) \in DOMAIN cache
  /\ sight[generateHash(<<"q">>)] = sight[generateHash(<<"p">>)]

\* C36: driven by the same sequence of requests, the pipeline over the
\* in-memory cache store and the one over the Firestore cache store have
\* attached the payload after the same sightings and have served the same
\* number of cache hits.
C36_StoresCacheOnTheSameSighting ==
  SameRequestsServed
    => /\ HasResponse(cache[generateHash(<<"q">>)])
            <=> HasResponse(cache[generateHash(<<"p">>)])
       /\ cache[generateHash(<<"q">>)].cacheHits = cache[generateHash(<<"p">>)].cacheHits


\* Slot r is about to look its record up.
AtLookup(r) == req[r].pc = "lookup"

\* C37: two requests are looked up under the same cache record exactly when
\* their query text and the content of the conversation history they loaded
\* are the same, whatever conversation id they carry; histories that differ
\* in any message give different records.
C37_SameRecordIffSameQueryAndHistory ==
  \A r1 \in Slots, r2 \in Slots :
    (AtLookup(r1) /\ AtLookup(r2))
      => ((req[r1].queryHash = req[r2].queryHash)
            <=> (req[r1].query = req[r2].query /\ req[r1].history = req[r2].history))


\* Another request for the conversation of slot r is in progress.
Concurrent(r) ==
  \E other \in Slots \ {r} :
    /\ req[other].pc # "idle"
    /\ req[other].chatIdIn = req[r].chatId

\* C38: when two requests for the same conversation overlap, each one that
\* succeeds adds its user message followed by its model message to the
\* conversation as one contiguous pair after everything stored before, so
\* both pairs end up in the history and no stored message is lost.
C38_ConcurrentTurnsAreBothStored ==
  [][\A r \in Slots :
       (StoresTurn(r) /\ req[r].chatId # NoChatId /\ Concurrent(r))
         => chats'[req[r].chatId] =
              chats[req[r].chatId]
                \o <<UserMsg(req[r].query), GeneratedModelMsg(req'[r].res)>>]_vars

====
